---- MODULE Spec2Model ----
(***************************************************************************)
(* A model of attachments-extractor.py: the filename sanitizer, the        *)
(* unique-path resolver, the attachment writer, the attachment selector    *)
(* and the run loop of main(), over a small POSIX-like filesystem.         *)
(*                                                                         *)
(* Strings are sequences of one-character strings, so that splitting,      *)
(* joining and replacing are computed the way the code computes them.      *)
(***************************************************************************)
EXTENDS Integers, Sequences, FiniteSets, TLC

VARIABLES
    san,        \* sanitize_filename under test: input, output, output of the second pass
    uq,         \* get_unique_path under test: the loop's position, its locals, the paths that exist
    fs,         \* the filesystem below the working directory
    organize,   \* args.organize
    keep,       \* args.keep
    emls,       \* the expanded list of input paths
    idx,        \* the index in emls of the input being processed
    pc,         \* where main is: "top" of the input loop, "save" in the attachment loop, "done", "aborted"
    location,   \* the output directory of the input being processed
    atts,       \* the attachments of that input not yet saved
    total,      \* len(attachments) of that input
    out,        \* this run's lines on standard output and on the error stream, in order
    sel,        \* history: the last message loaded and what get_attachments returned for it
    dirsel,     \* history: the filesystem before the last output directory was chosen, and the choice
    last,       \* history: the last save_attachment call, with the filesystem before and after it
    written,    \* history: the files the earlier attachments of the current input were saved to
    fails       \* history: the inputs of this run whose attachment loop was ended by an error

mainvars ==
    <<fs, organize, keep, emls, idx, pc, location, atts, total, out,
      sel, dirsel, last, written, fails>>

vars == <<san, uq, mainvars>>

(***************************************************************************)
(* Bounds of the model.                                                    *)
(***************************************************************************)
MaxNameLen == 2

MaxFiles == 2

MaxParts == 2

(***************************************************************************)
(* Strings.                                                                *)
(***************************************************************************)
Sep == "/"

ExtSep == "."

Underscore == "_"

\* All sequences over S of length exactly n, and of length at most n.
RECURSIVE SeqsOfLen(_, _)
SeqsOfLen(S, n) ==
    IF n = 0 THEN {<<>>}
    ELSE {<<c>> \o t : c \in S, t \in SeqsOfLen(S, n - 1)}

SeqsUpTo(S, n) == UNION {SeqsOfLen(S, k) : k \in 0..n}

\* str.rfind(c), 1-based; 0 when c does not occur (Python's -1).
RFind(p, c) ==
    LET hits == {i \in 1..Len(p) : p[i] = c}
    IN  IF hits = {} THEN 0 ELSE CHOOSE i \in hits : \A j \in hits : j <= i

(***************************************************************************)
(* sanitize_filename: re.sub(r"[...]", "_", filename).                     *)
(***************************************************************************)
\* The character class of the regular expression.
ReservedClass ==
    {"/", "\\", "|", "[", "]", "{", "}", ":", "<", ">", "+", "=", ";",
     ",", "?", "!", "*", "\"", "~", "#", "$", "%", "&", "@", "'"}

\* A sanitizer that replaces only the first match (re.sub with count=1).
RECURSIVE SanitizeFirstOnly(_)
SanitizeFirstOnly(filename) ==
    IF filename = <<>> THEN <<>>
    ELSE IF Head(filename) \in ReservedClass
         THEN <<Underscore>> \o Tail(filename)
         ELSE <<Head(filename)>> \o SanitizeFirstOnly(Tail(filename))

\* A sanitizer whose class lacks the path separator.
SanitizeKeepsSep(filename) ==
    [i \in 1..Len(filename) |->
        IF filename[i] \in ReservedClass \ {Sep} THEN Underscore ELSE filename[i]]

\* re.sub replaces every non-overlapping match; the class matches one character.
sanitize_filename(filename) ==
    [i \in 1..Len(filename) |->
        IF filename[i] \in ReservedClass THEN Underscore ELSE filename[i]]

(***************************************************************************)
(* The filesystem: a function from nodes to entries.  A node is the        *)
(* sequence of the path's components below the working directory.         *)
(***************************************************************************)
Dot == <<".">>

DotDot == <<".", ".">>

\* The component that marks the root directory in a node of an absolute path.
RootMark == <<Sep>>

Cwd == <<>>

DirEntry == [kind |-> "dir", src |-> <<0, 0>>, whole |-> TRUE]

FileEntry(src, whole) == [kind |-> "file", src |-> src, whole |-> whole]

\* The directories that exist whatever the program does: the working directory,
\* its ancestors and the root.
Ambient(node) ==
    \/ node = Cwd
    \/ node = <<RootMark>>
    \/ \A i \in 1..Len(node) : node[i] = DotDot

Exists(f, node) == node \in DOMAIN f \/ Ambient(node)

IsDir(f, node) ==
    \/ Ambient(node)
    \/ node \in DOMAIN f /\ f[node].kind = "dir"

Parent(node) ==
    IF node = <<RootMark>> THEN node
    ELSE IF \A i \in 1..Len(node) : node[i] = DotDot THEN node \o <<DotDot>>
    ELSE SubSeq(node, 1, Len(node) - 1)

\* str.split("/"): the components of a path, the empty ones included.
RECURSIVE SplitSep(_)
SplitSep(p) ==
    LET hits == {i \in 1..Len(p) : p[i] = Sep}
    IN  IF hits = {} THEN <<p>>
        ELSE LET i == CHOOSE h \in hits : \A j \in hits : h <= j
             IN  <<SubSeq(p, 1, i - 1)>> \o SplitSep(SubSeq(p, i + 1, Len(p)))

\* Path resolution without symbolic links: every component is looked up in a
\* directory; "" and "." stay, ".." goes up.  The last node need not exist.
RECURSIVE Walk(_, _, _)
Walk(f, comps, cur) ==
    IF comps = <<>> THEN [ok |-> TRUE, node |-> cur, err |-> "none"]
    ELSE IF ~Exists(f, cur) THEN [ok |-> FALSE, node |-> cur, err |-> "ENOENT"]
    ELSE IF ~IsDir(f, cur) THEN [ok |-> FALSE, node |-> cur, err |-> "ENOTDIR"]
    ELSE LET c == Head(comps)
         IN  IF c = <<>> \/ c = Dot THEN Walk(f, Tail(comps), cur)
             ELSE IF c = DotDot THEN Walk(f, Tail(comps), Parent(cur))
             ELSE Walk(f, Tail(comps), cur \o <<c>>)

Resolve(f, p) ==
    IF p = <<>> THEN [ok |-> FALSE, node |-> Cwd, err |-> "ENOENT"]
    ELSE IF p[1] = Sep THEN Walk(f, Tail(SplitSep(p)), <<RootMark>>)
    ELSE Walk(f, SplitSep(p), Cwd)

\* os.path.exists(path)
path_exists(f, p) ==
    LET r == Resolve(f, p) IN r.ok /\ Exists(f, r.node)

\* os.path.join(location, filename)
path_join(loc, filename) ==
    IF filename # <<>> /\ filename[1] = Sep THEN filename
    ELSE IF loc = <<>> \/ loc[Len(loc)] = Sep THEN loc \o filename
    ELSE loc \o <<Sep>> \o filename

\* os.path.splitext(p): the extension starts at the last dot of the last
\* component, unless only dots precede it there.
splitext(p) ==
    LET sepIndex == RFind(p, Sep)
        dotIndex == RFind(p, ExtSep)
    IN  IF /\ dotIndex > sepIndex
           /\ \E j \in (sepIndex + 1)..(dotIndex - 1) : p[j] # ExtSep
        THEN <<SubSeq(p, 1, dotIndex - 1), SubSeq(p, dotIndex, Len(p))>>
        ELSE <<p, <<>>>>

\* os.path.basename(p)
basename(p) == SubSeq(p, RFind(p, Sep) + 1, Len(p))

(***************************************************************************)
(* get_unique_path.                                                        *)
(***************************************************************************)
\* The number of random characters of a suffix.
SuffixLen == 5

\* string.ascii_letters + string.digits, cut down to two characters.
SuffixAlphabet == {"x", "y"}

Suffixes == SeqsOfLen(SuffixAlphabet, SuffixLen)

\* The suffixes random.choice produces in a run of main.
RunSuffixes == {<<"x", "x", "x", "x", "x">>, <<"x", "x", "x", "x", "y">>}

\* A candidate with the suffix appended to the whole path, after the extension.
CandidateAfterExtension(filename, extension, suffix) ==
    filename \o extension \o <<Underscore>> \o suffix

\* A candidate whose suffix is the same at every draw.
CandidateSameSuffix(filename, extension, suffix) ==
    filename \o <<Underscore>> \o <<"x", "x", "x", "x", "x">> \o extension

\* The f-string of the loop body.
Candidate(filename, extension, suffix) ==
    filename \o <<Underscore>> \o suffix \o extension

\* An `if` in place of the `while`: the first candidate is returned unchecked.
KeepLookingOnce(f, orig, cur) == cur = orig /\ path_exists(f, cur)

\* The loop test, `while os.path.exists(path)`; orig is the argument, cur the
\* loop variable.
KeepLooking(f, orig, cur) == path_exists(f, cur)

\* What a call can return: the argument when the loop body never runs, else any
\* candidate on which the loop test fails.
get_unique_path(f, path) ==
    IF ~KeepLooking(f, path, path) THEN {path}
    ELSE {c \in {Candidate(splitext(path)[1], splitext(path)[2], s) : s \in RunSuffixes} :
            ~KeepLooking(f, path, c)}

(***************************************************************************)
(* Messages, as the email library hands them over.                         *)
(***************************************************************************)
\* A declared filename: get_filename() returns None or a string.
NoName == [has |-> FALSE, str |-> <<>>]

Name(str) == [has |-> TRUE, str |-> str]

Names == {NoName, Name(<<>>), Name(<<"a">>), Name(<<".", ".", "/", "a">>)}

\* How the payload of a part comes out: "bytes" decodes to bytes, "rfc822" is
\* an embedded message, "none" is a part whose get_payload(decode=True) is None.
Bodies == {"bytes", "rfc822", "none"}

Dispositions == {"none", "inline", "attachment"}

\* listed: iter_attachments() of the enclosing message yields the part.
Part(listed, name, body) ==
    [multipart |-> FALSE, broken |-> FALSE, disposition |-> "none", listed |-> listed,
     name |-> name, body |-> body, parts |-> <<>>]

PartUniverse ==
    {Part(TRUE, NoName, "bytes"), Part(TRUE, Name(<<>>), "bytes"),
     Part(TRUE, Name(<<"a">>), "bytes"), Part(TRUE, Name(<<"a">>), "none"),
     Part(TRUE, Name(<<".", ".", "/", "a">>), "rfc822"),
     Part(FALSE, NoName, "bytes")}

\* broken: reading the message's content-disposition header raises.
Messages ==
    {[multipart |-> FALSE, broken |-> FALSE, disposition |-> d, listed |-> FALSE,
      name |-> n, body |-> "bytes", parts |-> <<>>] :
        d \in Dispositions, n \in Names}
    \cup
    {[multipart |-> FALSE, broken |-> TRUE, disposition |-> "none", listed |-> FALSE,
      name |-> NoName, body |-> "bytes", parts |-> <<>>]}
    \cup
    {[multipart |-> TRUE, broken |-> FALSE, disposition |-> "none", listed |-> FALSE,
      name |-> NoName, body |-> "none", parts |-> ps] :
        ps \in SeqsUpTo(PartUniverse, MaxParts)}

EmlA == <<"a", ".", "e", "m", "l">>

EmlNames == {EmlA, <<"d", "/", "b", ".", "c", ".", "e", "m", "l">>}

EmlLists == SeqsUpTo(EmlNames, MaxFiles)

(***************************************************************************)
(* get_attachments.                                                        *)
(***************************************************************************)
is_attachment(msg) == msg.disposition = "attachment"

RECURSIVE iter_attachments(_)
iter_attachments(parts) ==
    IF parts = <<>> THEN <<>>
    ELSE (IF Head(parts).listed THEN <<Head(parts)>> ELSE <<>>)
            \o iter_attachments(Tail(parts))

\* A selector without the "inline" clause.
GetAttachmentsNoInline(msg) ==
    IF msg.multipart THEN [none |-> FALSE, list |-> iter_attachments(msg.parts)]
    ELSE IF is_attachment(msg) THEN [none |-> FALSE, list |-> <<msg>>]
    ELSE [none |-> TRUE, list |-> <<>>]

\* none: the function falls off its end and returns None.
get_attachments(msg) ==
    IF msg.multipart THEN [none |-> FALSE, list |-> iter_attachments(msg.parts)]
    ELSE IF is_attachment(msg) \/ msg.disposition = "inline"
         THEN [none |-> FALSE, list |-> <<msg>>]
    ELSE [none |-> TRUE, list |-> <<>>]

(***************************************************************************)
(* save_attachment.                                                        *)
(***************************************************************************)
WithEntry(f, node, entry) ==
    [n \in DOMAIN f \cup {node} |-> IF n = node THEN entry ELSE f[n]]

Failed(f, path, err, opened, node) ==
    [ok |-> FALSE, err |-> err, fs |-> f, path |-> path, opened |-> opened, node |-> node]

\* open(path, "w" or "wb") and the write that follows.  The payload is fetched
\* before the file is opened; a payload of None fails in file.write, after
\* the file was created or truncated.
WriteFile(f, path, body, src) ==
    LET r == Resolve(f, path)
    IN  IF ~r.ok THEN Failed(f, path, r.err, FALSE, r.node)
        ELSE IF IsDir(f, r.node) THEN Failed(f, path, "EISDIR", FALSE, r.node)
        ELSE IF body = "none"
             THEN Failed(WithEntry(f, r.node, FileEntry(src, FALSE)), path,
                         "TypeError: a bytes-like object is required", TRUE, r.node)
        ELSE [ok |-> TRUE, err |-> "none", fs |-> WithEntry(f, r.node, FileEntry(src, TRUE)),
              path |-> path, opened |-> TRUE, node |-> r.node]

\* Every way a call can end; no way at all when get_unique_path never returns.
save_attachment(f, loc, attachment, keepFlag, src) ==
    IF ~attachment.name.has
    THEN {Failed(f, <<>>, "TypeError: expected string or bytes-like object", FALSE, Cwd)}
    ELSE LET filename == sanitize_filename(attachment.name.str)
             path == path_join(loc, filename)
         IN  {WriteFile(f, p, attachment.body, src) :
                p \in IF keepFlag THEN get_unique_path(f, path) ELSE {path}}

(***************************************************************************)
(* os.makedirs(location, exist_ok=True).                                   *)
(***************************************************************************)
RECURSIVE MkdirP(_, _, _)
MkdirP(f, comps, cur) ==
    IF comps = <<>> THEN [ok |-> TRUE, fs |-> f, err |-> "none"]
    ELSE LET c == Head(comps)
             nxt == cur \o <<c>>
         IN  IF c = <<>> \/ c = Dot THEN MkdirP(f, Tail(comps), cur)
             ELSE IF c = DotDot THEN MkdirP(f, Tail(comps), Parent(cur))
             ELSE IF ~Exists(f, nxt) THEN MkdirP(WithEntry(f, nxt, DirEntry), Tail(comps), nxt)
             ELSE IF IsDir(f, nxt) THEN MkdirP(f, Tail(comps), nxt)
             ELSE [ok |-> FALSE, fs |-> f,
                   err |-> IF Len(comps) = 1 THEN "EEXIST" ELSE "ENOTDIR"]

makedirs(f, loc) ==
    IF loc # <<>> /\ loc[1] = Sep THEN MkdirP(f, Tail(SplitSep(loc)), <<RootMark>>)
    ELSE MkdirP(f, SplitSep(loc), Cwd)

(***************************************************************************)
(* The states of the parts of the model a specification does not run.      *)
(***************************************************************************)
SanIdle == [pc |-> "idle", in |-> <<>>, out |-> <<>>, out2 |-> <<>>]

UqIdle ==
    [pc |-> "idle", path |-> <<>>, filename |-> <<>>, extension |-> <<>>, cur |-> <<>>,
     fs |-> <<>>, retried |-> FALSE, free |-> {}]

NoSel ==
    [loaded |-> FALSE, i |-> 0, msg |-> Part(FALSE, NoName, "bytes"), none |-> TRUE,
     list |-> <<>>]

NoDirSel ==
    [chosen |-> FALSE, organize |-> FALSE, keep |-> FALSE, pre |-> <<>>, base |-> <<>>,
     loc |-> <<>>, node |-> Cwd]

NoLast ==
    [called |-> FALSE, keep |-> FALSE, loc |-> <<>>, name |-> NoName, src |-> <<0, 0>>,
     pre |-> <<>>, post |-> <<>>, ok |-> FALSE, opened |-> FALSE, node |-> Cwd,
     path |-> <<>>, err |-> "none", before |-> <<>>]

MainIdle ==
    /\ fs = <<>> /\ organize = FALSE /\ keep = FALSE /\ emls = <<>>
    /\ idx = 0 /\ pc = "idle" /\ location = <<>> /\ atts = <<>> /\ total = 0
    /\ out = <<>> /\ sel = NoSel /\ dirsel = NoDirSel /\ last = NoLast
    /\ written = <<>> /\ fails = {}

(***************************************************************************)
(* sanitize_filename applied to a filename, and again to its own result.   *)
(***************************************************************************)
SanAlphabet ==
    {"/", "\\", "|", "[", "]", "{", "}", ":", "<", ">", "+", "=", ";",
     ",", "?", "!", "*", "\"", "~", "#", "$", "%", "&", "@", "'",
     "a", ".", "_", " ", "-"}

SanInit ==
    /\ san \in {[pc |-> "in", in |-> name, out |-> <<>>, out2 |-> <<>>] :
                    name \in SeqsUpTo(SanAlphabet, MaxNameLen)}
    /\ uq = UqIdle
    /\ MainIdle

SanOnce ==
    /\ san.pc = "in"
    /\ san' = [san EXCEPT !.pc = "once", !.out = sanitize_filename(san.in)]
    /\ UNCHANGED <<uq, mainvars>>

SanTwice ==
    /\ san.pc = "once"
    /\ san' = [san EXCEPT !.pc = "twice", !.out2 = sanitize_filename(san.out)]
    /\ UNCHANGED <<uq, mainvars>>

SanNext == SanOnce \/ SanTwice

SanSpec == SanInit /\ [][SanNext]_vars

(***************************************************************************)
(* get_unique_path, one loop test at a time.                               *)
(***************************************************************************)
Attachments == <<"a", "t", "t">>

UqPaths ==
    {Attachments \o <<Sep>> \o n :
        n \in {<<>>, <<".", ".">>, <<"a">>, <<"a", ".", "t">>, <<".", "b">>,
               <<".", ".", "a">>, <<"b", ".", "c", ".", "t">>}}
    \cup {<<"a", ".", "d", "/", "b">>, <<"n", "/", "a">>, <<"a", ".", "d">>}

UqBase ==
    WithEntry(WithEntry(<<>>, <<Attachments>>, DirEntry), <<<<"a", ".", "d">>>>, DirEntry)

\* f with a file at each of the paths that names no directory.
WithFiles(f, paths) ==
    LET nodes == {Resolve(f, q).node : q \in {q \in paths : Resolve(f, q).ok}}
    IN  [n \in DOMAIN f \cup {n \in nodes : ~IsDir(f, n)} |->
            IF n \in DOMAIN f THEN f[n] ELSE FileEntry(<<0, 0>>, TRUE)]

CandidatesOf(path) ==
    {Candidate(splitext(path)[1], splitext(path)[2], s) : s \in Suffixes}

\* The path itself and two of its candidates, in every combination, and the
\* filesystem in which every candidate is taken.
UqFilesystems(path) ==
    {WithFiles(UqBase, occupied) :
        occupied \in SUBSET {path,
                             Candidate(splitext(path)[1], splitext(path)[2],
                                       <<"x", "x", "x", "x", "x">>),
                             Candidate(splitext(path)[1], splitext(path)[2],
                                       <<"x", "x", "x", "x", "y">>)}}
    \cup {WithFiles(UqBase, {path} \cup CandidatesOf(path))}

UqInit ==
    /\ \E path \in UqPaths : \E f \in UqFilesystems(path) :
          uq = [pc |-> "call", path |-> path, filename |-> <<>>, extension |-> <<>>,
                cur |-> path, fs |-> f, retried |-> FALSE, free |-> {}]
    /\ san = SanIdle
    /\ MainIdle

\* filename, extension = os.path.splitext(path).  free is history: the
\* candidates that nothing occupies.
UqEnter ==
    /\ uq.pc = "call"
    /\ uq' = [uq EXCEPT !.pc = "test", !.filename = splitext(uq.path)[1],
                        !.extension = splitext(uq.path)[2],
                        !.free = {c \in CandidatesOf(uq.path) : ~path_exists(uq.fs, c)}]
    /\ UNCHANGED <<san, mainvars>>

\* while os.path.exists(path): into the body, or out of the loop.
UqTest ==
    /\ uq.pc = "test"
    /\ uq' = [uq EXCEPT !.pc = IF KeepLooking(uq.fs, uq.path, uq.cur) THEN "body" ELSE "done"]
    /\ UNCHANGED <<san, mainvars>>

\* The loop body: path = f"{filename}_{suffix}{extension}".
UqDraw(suffix) ==
    /\ uq.pc = "body"
    /\ uq' = [uq EXCEPT !.pc = "test",
                        !.cur = Candidate(uq.filename, uq.extension, suffix),
                        !.retried = (uq.cur # uq.path)]
    /\ UNCHANGED <<san, mainvars>>

UqNext == UqEnter \/ UqTest \/ (\E suffix \in Suffixes : UqDraw(suffix))

UqSpec == UqInit /\ [][UqNext]_vars

\* A draw whose candidate nothing occupies.
UqDrawFree ==
    /\ uq.pc = "body"
    /\ \E c \in uq.free :
          uq' = [uq EXCEPT !.pc = "test", !.cur = c, !.retried = (uq.cur # uq.path)]
    /\ UNCHANGED <<san, mainvars>>

\* random.choice is fair: while the loop runs, every suffix stays possible at
\* every draw, so a draw that ends the loop is not put off for ever.
UqFairSpec ==
    /\ UqInit /\ [][UqNext]_vars
    /\ WF_vars(UqEnter) /\ WF_vars(UqTest) /\ SF_vars(UqDrawFree)

(***************************************************************************)
(* main: one step per input file, then one per attachment of it.           *)
(***************************************************************************)
Line(i, stream, file, n, msg) ==
    [i |-> i, stream |-> stream, file |-> file, n |-> n, msg |-> msg]

\* "attachments", or os.path.join("attachments", <stem of the input's name>).
Location(eml, org) ==
    IF ~org THEN Attachments
    ELSE path_join(Attachments, basename(splitext(eml)[1]))

\* The directory made unique when it is not to be kept apart.
UniqueDirWhenNotKeeping(org, kp) == org /\ ~kp

\* if args.organize and args.keep
UniqueDirWanted(org, kp) == org /\ kp

\* An error handler inside the attachment loop: the loop goes on.
OnErrorContinue(rest) == rest

\* The exception leaves the attachment loop for the handler after it: of
\* rest, what the loop had not reached, nothing is left to save.
OnError(rest) == <<>>

\* History of the selection, kept for messages that are not multipart.
Selected(msg, got, i) ==
    IF msg.multipart THEN NoSel
    ELSE [loaded |-> TRUE, i |-> i, msg |-> msg, none |-> got.none, list |-> got.list]

\* What earlier runs in the same working directory can have left: nothing;
\* "a" saved by a default run; "a" saved twice by runs with --keep; "a"
\* saved by a run with --organize on a.eml.
EarlierRuns ==
    LET dir == makedirs(<<>>, Attachments).fs
        a == path_join(Attachments, <<"a">>)
        one == WriteFile(dir, a, "bytes", <<0, 0>>).fs
        sub == makedirs(<<>>, a).fs
    IN  {<<>>,
         one,
         WriteFile(one, Candidate(a, <<>>, <<"x", "x", "x", "x", "x">>), "bytes", <<0, 0>>).fs,
         WriteFile(sub, path_join(a, <<"a">>), "bytes", <<0, 0>>).fs}

\* for eml in emls: the loop is at its top for input number i, or over, and
\* main returns.
AtInput(list, i) == IF i <= Len(list) THEN "top" ELSE "done"

Init ==
    /\ san = SanIdle
    /\ uq = UqIdle
    /\ fs \in EarlierRuns
    /\ organize \in BOOLEAN
    /\ keep \in BOOLEAN
    /\ emls \in EmlLists
    /\ idx = 1
    /\ pc = AtInput(emls, 1)
    /\ location = <<>>
    /\ atts = <<>>
    /\ total = 0
    /\ out = <<>>
    /\ sel = NoSel
    /\ dirsel = NoDirSel
    /\ last = NoLast
    /\ written = <<>>
    /\ fails = {}

\* open(eml, "rb") or message_from_binary_file raises.
ReadFails ==
    /\ pc = "top"
    /\ idx <= Len(emls)
    /\ out' = Append(out, Line(idx, "stderr", emls[idx], -1, "failed to read file"))
    /\ idx' = idx + 1
    /\ pc' = AtInput(emls, idx + 1)
    /\ UNCHANGED <<san, uq, fs, organize, keep, emls, location, atts, total,
                   sel, dirsel, last, written, fails>>

\* get_attachments(msg) raises: nothing around the call catches it, and the
\* handler around main() catches KeyboardInterrupt only.
SelectRaises(msg) ==
    /\ pc = "top"
    /\ idx <= Len(emls)
    /\ msg.broken
    /\ pc' = "aborted"
    /\ sel' = NoSel
    /\ UNCHANGED <<san, uq, fs, organize, keep, emls, idx, location, atts, total,
                   out, dirsel, last, written, fails>>

\* if not attachments: print(f"{eml} (0)"); continue
NoAttachments(msg) ==
    /\ pc = "top"
    /\ idx <= Len(emls)
    /\ ~msg.broken
    /\ LET got == get_attachments(msg)
       IN  /\ got.none \/ got.list = <<>>
           /\ sel' = Selected(msg, got, idx)
    /\ out' = Append(out, Line(idx, "stdout", emls[idx], 0, "none"))
    /\ idx' = idx + 1
    /\ pc' = AtInput(emls, idx + 1)
    /\ UNCHANGED <<san, uq, fs, organize, keep, emls, location, atts, total,
                   dirsel, last, written, fails>>

\* The output directory is chosen and os.makedirs raises.
DirFails(msg) ==
    /\ pc = "top"
    /\ idx <= Len(emls)
    /\ ~msg.broken
    /\ LET got == get_attachments(msg)
           base == Location(emls[idx], organize)
       IN  /\ ~got.none /\ got.list # <<>>
           /\ sel' = Selected(msg, got, idx)
           /\ \E loc \in IF UniqueDirWanted(organize, keep)
                         THEN get_unique_path(fs, base) ELSE {base} :
                 LET made == makedirs(fs, loc)
                 IN  /\ ~made.ok
                     /\ out' = Append(out, Line(idx, "stderr", basename(emls[idx]), -1, made.err))
    /\ idx' = idx + 1
    /\ pc' = AtInput(emls, idx + 1)
    /\ UNCHANGED <<san, uq, fs, organize, keep, emls, location, atts, total,
                   dirsel, last, written, fails>>

\* The output directory is chosen and made; the attachment loop starts.
Begin(msg) ==
    /\ pc = "top"
    /\ idx <= Len(emls)
    /\ ~msg.broken
    /\ LET got == get_attachments(msg)
           base == Location(emls[idx], organize)
       IN  /\ ~got.none /\ got.list # <<>>
           /\ sel' = Selected(msg, got, idx)
           /\ atts' = got.list
           /\ total' = Len(got.list)
           /\ \E loc \in IF UniqueDirWanted(organize, keep)
                         THEN get_unique_path(fs, base) ELSE {base} :
                 LET made == makedirs(fs, loc)
                 IN  /\ made.ok
                     /\ fs' = made.fs
                     /\ location' = loc
                     /\ dirsel' = [chosen |-> TRUE, organize |-> organize, keep |-> keep,
                                   pre |-> fs, base |-> base, loc |-> loc,
                                   node |-> Resolve(made.fs, loc).node]
    /\ pc' = "save"
    /\ written' = <<>>
    /\ UNCHANGED <<san, uq, organize, keep, emls, idx, out, last, fails>>

\* The number, in its input, of the attachment the loop is at.
AttNo == total - Len(atts) + 1

Called(r) ==
    [called |-> TRUE, keep |-> keep, loc |-> location, name |-> Head(atts).name,
     src |-> <<idx, AttNo>>, pre |-> fs, post |-> r.fs, ok |-> r.ok,
     opened |-> r.opened, node |-> r.node, path |-> r.path, err |-> r.err,
     before |-> written]

\* save_attachment returns and the loop has more to save.
SaveMore ==
    /\ pc = "save"
    /\ Len(atts) > 1
    /\ \E r \in save_attachment(fs, location, Head(atts), keep, <<idx, AttNo>>) :
          /\ r.ok
          /\ fs' = r.fs
          /\ last' = Called(r)
          /\ written' = Append(written, [node |-> r.node, entry |-> r.fs[r.node]])
    /\ atts' = Tail(atts)
    /\ UNCHANGED <<san, uq, organize, keep, emls, idx, pc, location, total, out,
                   sel, dirsel, fails>>

\* save_attachment returns for the last attachment: print(f"{eml} ({len(attachments)})")
SaveLast ==
    /\ pc = "save"
    /\ Len(atts) = 1
    /\ \E r \in save_attachment(fs, location, Head(atts), keep, <<idx, AttNo>>) :
          /\ r.ok
          /\ fs' = r.fs
          /\ last' = Called(r)
          /\ written' = Append(written, [node |-> r.node, entry |-> r.fs[r.node]])
    /\ atts' = <<>>
    /\ out' = Append(out, Line(idx, "stdout", emls[idx], total, "none"))
    /\ idx' = idx + 1
    /\ pc' = AtInput(emls, idx + 1)
    /\ UNCHANGED <<san, uq, organize, keep, emls, location, total, sel, dirsel, fails>>

\* save_attachment raises: except Exception as err: print(..., file=sys.stderr)
SaveFails ==
    /\ pc = "save"
    /\ atts # <<>>
    /\ \E r \in save_attachment(fs, location, Head(atts), keep, <<idx, AttNo>>) :
          /\ ~r.ok
          /\ fs' = r.fs
          /\ last' = Called(r)
          /\ fails' = fails \cup {[i |-> idx, k |-> AttNo, err |-> r.err, keep |-> keep,
                                   before |-> written, post |-> r.fs]}
          /\ out' = Append(out, Line(idx, "stderr", basename(emls[idx]), -1, r.err))
    /\ atts' = OnError(Tail(atts))
    /\ idx' = IF OnError(Tail(atts)) = <<>> THEN idx + 1 ELSE idx
    /\ pc' = IF OnError(Tail(atts)) = <<>> THEN AtInput(emls, idx + 1) ELSE "save"
    /\ UNCHANGED <<san, uq, organize, keep, emls, location, total, sel, dirsel, written>>

Next ==
    \/ ReadFails
    \/ \E msg \in Messages : SelectRaises(msg)
    \/ \E msg \in Messages : NoAttachments(msg)
    \/ \E msg \in Messages : DirFails(msg)
    \/ \E msg \in Messages : Begin(msg)
    \/ SaveMore
    \/ SaveLast
    \/ SaveFails

Spec == Init /\ [][Next]_vars

(***************************************************************************)
(* Claims about sanitize_filename and get_unique_path.                     *)
(***************************************************************************)
\* The reserved characters as the specification lists them.
ListedReserved ==
    {"/", "\\", "|", "[", "]", "{", "}", ":", "<", ">", "+", "=", ";", ",", "?", "!",
     "*", "\"", "~", "#", "$", "%", "&", "@", "'"}

\* C3: sanitize_filename replaces every reserved character by "_", leaves the
\* length and every other character (leading dots included) as they were, and
\* sanitizing its result again changes nothing.
C3_SanitizeReplacesReservedOnly ==
    /\ san.pc \in {"once", "twice"} =>
          /\ Len(san.out) = Len(san.in)
          /\ \A k \in 1..Len(san.in) :
                san.out[k] = IF san.in[k] \in ListedReserved THEN "_" ELSE san.in[k]
    /\ san.pc = "twice" => san.out2 = san.out

C3_Witness ==
    /\ san.pc = "twice"
    /\ san.in = <<".", "/">>
    /\ san.out = <<".", "_">>
    /\ san.out2 = <<".", "_">>

\* C2: get_unique_path returns its argument when nothing exists there; otherwise
\* it returns a path that does not exist, whose stem is the argument's stem
\* followed by "_" and 5 alphanumeric characters and whose extension is the
\* argument's extension.
C2_UniquePathContract ==
    uq.pc = "done" =>
        IF ~path_exists(uq.fs, uq.path) THEN uq.cur = uq.path
        ELSE /\ ~path_exists(uq.fs, uq.cur)
             /\ \E sfx \in SeqsOfLen(SuffixAlphabet, 5) :
                    splitext(uq.cur)[1] = splitext(uq.path)[1] \o <<"_">> \o sfx
             /\ splitext(uq.cur)[2] = splitext(uq.path)[2]

C2_Witness ==
    /\ uq.pc = "done"
    /\ uq.retried
    /\ uq.path = Attachments \o <<Sep>> \o <<"b", ".", "c", ".", "t">>
    /\ splitext(uq.cur)[2] = <<".", "t">>
    /\ ~path_exists(uq.fs, uq.cur)

\* The argument is unoccupied, or some path made of its stem, "_", five
\* characters and its extension is.
UqCanFinish ==
    \/ ~path_exists(uq.fs, uq.path)
    \/ \E sfx \in SeqsOfLen(SuffixAlphabet, 5) :
          ~path_exists(uq.fs, splitext(uq.path)[1] \o <<"_">> \o sfx \o splitext(uq.path)[2])

\* C9: get_unique_path never returns a path that exists, and with a fair
\* random choice it returns whenever its argument or one of the suffixed
\* candidates is unoccupied.
C9_UniquePathTerminates ==
    /\ [](uq.pc = "done" => ~path_exists(uq.fs, uq.cur))
    /\ (UqCanFinish ~> uq.pc = "done")

C9_Witness ==
    /\ uq.pc = "done"
    /\ uq.retried
    /\ uq.cur # uq.path
    /\ path_exists(uq.fs, Candidate(uq.filename, uq.extension, <<"x", "x", "x", "x", "y">>))

(***************************************************************************)
(* Claims about a run of main.                                             *)
(***************************************************************************)
IsPrefix(a, b) == Len(a) <= Len(b) /\ SubSeq(b, 1, Len(a)) = a

LinesOf(j) == {n \in 1..Len(out) : out[n].i = j}

\* C1: with keep enabled a save_attachment call leaves every file that existed
\* before it as it was, and a call that succeeds creates exactly one new file,
\* at a path that nothing occupied when the call started.
C1_KeepNeverOverwrites ==
    (last.called /\ last.keep) =>
        /\ \A n \in DOMAIN last.pre : n \in DOMAIN last.post /\ last.post[n] = last.pre[n]
        /\ last.ok =>
              /\ ~path_exists(last.pre, last.path)
              /\ last.node \notin DOMAIN last.pre
              /\ DOMAIN last.post = DOMAIN last.pre \cup {last.node}
              /\ last.post[last.node].kind = "file"

C1_Witness ==
    /\ last.called /\ last.keep /\ last.ok
    /\ last.src = <<2, 2>>
    /\ last.path # path_join(last.loc, sanitize_filename(last.name.str))
    /\ \E n \in DOMAIN last.pre : last.pre[n].kind = "file" /\ last.pre[n].src = <<0, 0>>
    /\ \E n \in DOMAIN last.pre : last.pre[n].kind = "file" /\ last.pre[n].src = <<1, 1>>

\* C4: for a message that is not multipart, get_attachments returns the message
\* itself, alone, when it is marked as an attachment or its disposition is
\* "inline"; otherwise it returns nothing and main prints "<file> (0)".
C4_NonMultipartSelection ==
    sel.loaded =>
        IF sel.msg.disposition \in {"attachment", "inline"}
        THEN ~sel.none /\ sel.list = <<sel.msg>>
        ELSE /\ sel.none
             /\ \E n \in LinesOf(sel.i) :
                    /\ LinesOf(sel.i) = {n}
                    /\ out[n] = Line(sel.i, "stdout", emls[sel.i], 0, "none")

C4_Witness ==
    /\ sel.loaded
    /\ ~sel.msg.multipart
    /\ sel.msg.disposition = "inline"
    /\ sel.list = <<sel.msg>>
    /\ pc = "save"
    /\ atts = <<sel.msg>>

\* C5: whatever fails while an input is processed, the run does not abort, and
\* every input the loop has passed has exactly one report line.
C5_EveryInputReported ==
    /\ pc # "aborted"
    /\ \A j \in 1..Len(emls) : j < idx => Cardinality(LinesOf(j)) = 1
    /\ pc = "done" => idx = Len(emls) + 1

\* What C6 says but for the earlier attachments: nothing after the failing
\* attachment is written, one error line carries the error, there is no
\* success line, and the loop has gone on to the next input.
FailureEndsTheInput(f) ==
    /\ \A n \in DOMAIN fs : (fs[n].kind = "file" /\ fs[n].src[1] = f.i) => fs[n].src[2] <= f.k
    /\ \E n \in LinesOf(f.i) :
          /\ LinesOf(f.i) = {n}
          /\ out[n] = Line(f.i, "stderr", basename(emls[f.i]), -1, f.err)
    /\ idx > f.i
    /\ pc \in {"top", "done", "aborted"} \/ (pc = "save" /\ idx > f.i)

\* C6, as amended: when saving the i-th attachment of an input fails, no later
\* attachment of that input is written, the files of the earlier ones are
\* still there (with keep, unchanged; without keep, a failing attachment of
\* the same name may have truncated one), one error line carries the error,
\* no success line is printed and the loop goes on to the next input.
C6_FailureKeepsEarlierFiles ==
    \A f \in fails :
        /\ FailureEndsTheInput(f)
        /\ \A w \in 1..Len(f.before) :
              /\ f.before[w].node \in DOMAIN f.post
              /\ f.keep => f.post[f.before[w].node] = f.before[w].entry

C6_Witness ==
    \E f \in fails :
        /\ f.i = 1 /\ f.k = 2
        /\ Len(f.before) = 1
        /\ Len(out) = 2
        /\ out[2].stream = "stdout" /\ out[2].n = 1
        /\ pc = "done"

\* C6, as stated: the attachments saved before the failing one remain on disk.
C6_FailureKeepsEarlierAttachments ==
    \A f \in fails :
        /\ FailureEndsTheInput(f)
        /\ \A w \in 1..Len(f.before) :
              /\ f.before[w].node \in DOMAIN f.post
              /\ f.post[f.before[w].node] = f.before[w].entry

\* C7: a declared filename that is absent or empty makes save_attachment fail,
\* with and without keep, and no file is created.
C7_UnusableNameWritesNothing ==
    (last.called /\ (~last.name.has \/ last.name.str = <<>>)) =>
        /\ ~last.ok
        /\ ~last.opened
        /\ last.post = last.pre

\* C8: with organize and keep, the output directory of an input did not exist
\* before the input was processed, and while the input is processed everything
\* that existed before stays as it was: what is new is the directory, the
\* directories above it and what is inside it.
C8_FreshDirectoryPerInput ==
    (dirsel.chosen /\ dirsel.organize /\ dirsel.keep) =>
        /\ ~path_exists(dirsel.pre, dirsel.loc)
        /\ dirsel.node \notin DOMAIN dirsel.pre
        /\ \A n \in DOMAIN dirsel.pre : n \in DOMAIN fs /\ fs[n] = dirsel.pre[n]
        /\ \A n \in DOMAIN fs \ DOMAIN dirsel.pre :
              IsPrefix(n, dirsel.node) \/ IsPrefix(dirsel.node, n)

C8_Witness ==
    /\ dirsel.chosen /\ dirsel.organize /\ dirsel.keep
    /\ dirsel.loc # dirsel.base
    /\ path_exists(dirsel.pre, dirsel.base)
    /\ last.called /\ last.ok /\ last.loc = dirsel.loc
    /\ emls = <<EmlA, EmlA>>
    /\ pc = "done"

\* C10: whatever the declared filename and the keep flag, a file that
\* save_attachment creates or overwrites is a direct child of the directory
\* the call was given.
C10_WritesStayInLocation ==
    (last.called /\ last.opened) =>
        LET d == Resolve(last.pre, last.loc)
        IN  /\ d.ok
            /\ Len(last.node) = Len(d.node) + 1
            /\ SubSeq(last.node, 1, Len(d.node)) = d.node

C10_Witness ==
    /\ last.called /\ last.opened /\ last.ok
    /\ last.name = Name(<<".", ".", "/", "a">>)
    /\ last.keep
    /\ last.path # path_join(last.loc, sanitize_filename(last.name.str))

====
